---- MODULE Spec2Model ----
(***************************************************************************)
(* WhoMe (src/main.py): the SQLite tables, the request handlers that write *)
(* them and the statements each handler runs.                              *)
(*                                                                         *)
(* Text that the code inspects character by character (usernames, post and *)
(* comment content) is a sequence of one-character strings; text the code  *)
(* only stores (emails, message bodies) is a string.                       *)
(* A query result that the code tests with "if not row" is the set of the  *)
(* matching rows: {} is None.                                              *)
(***************************************************************************)
EXTENDS Integers, Sequences, FiniteSets, TLC

VARIABLES users, posts, comments, likes, chats, messages, channels,
          channel_messages, seq, files, now, resp, pc, loc

vars == <<users, posts, comments, likes, chats, messages, channels,
          channel_messages, seq, files, now, resp, pc, loc>>

\* the tables of the channel store
channel_store == <<channels, channel_messages>>

--------------------------------------------------------------------------
(* Bounds of the model *)

\* rows ever inserted into posts, comments and likes together
MaxContentRows == 3
\* rows ever inserted into chats and messages together
MaxChatRows == 3
\* the clock int(time.time()) runs over 0..MaxTime
MaxTime == 1
\* rows ever inserted into channels and channel_messages together
MaxChannelRows == 2
\* rows ever inserted into all tables but users, where every handler runs
MaxGuestRows == 1

--------------------------------------------------------------------------
(* Inputs *)

ANN == <<"@", "a", "n", "n">>
BOB == <<"@", "b", "o", "b">>
\* no leading @, and too short after the @
BadNames == { <<"a", "n", "n">>, <<"@", "a", "b">> }
\* the names that pass valid_username; a cookie carrying one names a user once
\* that user has registered
Names == {ANN, BOB}
UsernameInputs == Names \cup BadNames
\* the whome_user cookie: absent (<<>>) or any text
CookieInputs == {<<>>, ANN, BOB}
EmailInputs == {"ann@x", "bob@x"}
ContentInputs == { <<"h", "i">>, <<" ">> }
\* create_post's content field, which defaults to the empty text
PostContentInputs == ContentInputs \cup { <<>> }
\* an upload's file name; <<>> is no upload
FileInputs == {<<>>, <<"a">>}
PostIdInputs == {1, 2}
TextInputs == {"hello"}
GiftInputs == {"Flowers", "Pizza"}
ChannelNameInputs == {"news", "fun"}
ChannelIdInputs == {1}
\* the first_name and last_name every registration form carries
RegFirstName == "first"
RegLastName == "last"
FirstNameInputs == {RegFirstName, "al"}
UserIdInputs == {1}
TableNames == {"users", "posts", "comments", "likes", "chats", "messages",
               "channels", "channel_messages"}

--------------------------------------------------------------------------
(* Helpers *)

UsernameMinLen == 3
UsernameMaxLen == 20

Letters == {"a","b","c","d","e","f","g","h","i","j","k","l","m","n","o","p",
            "q","r","s","t","u","v","w","x","y","z",
            "A","B","C","D","E","F","G","H","I","J","K","L","M","N","O","P",
            "Q","R","S","T","U","V","W","X","Y","Z"}
Digits == {"0","1","2","3","4","5","6","7","8","9"}
WordChars == Letters \cup Digits \cup {"_"}
Whitespace == {" ", "\t", "\n", "\r"}

\* re.fullmatch(r"@[a-zA-Z0-9_]{3,20}", u or "")
valid_username(u) ==
    /\ Len(u) >= 1 + UsernameMinLen
    /\ Len(u) <= 1 + UsernameMaxLen
    /\ u[1] = "@"
    /\ \A i \in 2..Len(u) : u[i] \in WordChars

RECURSIVE lstrip(_, _)
\* str.lstrip(chars)
lstrip(s, chars) ==
    IF s # <<>> /\ Head(s) \in chars THEN lstrip(Tail(s), chars) ELSE s

RECURSIVE rstrip(_, _)
\* str.rstrip(chars)
rstrip(s, chars) ==
    IF s # <<>> /\ s[Len(s)] \in chars
    THEN rstrip(SubSeq(s, 1, Len(s) - 1), chars) ELSE s

\* str.strip()
strip(s) == rstrip(lstrip(s, Whitespace), Whitespace)

\* the rows of a table in ascending id order (ORDER BY id ASC)
RECURSIVE OrderById(_)
OrderById(rows) ==
    IF rows = {} THEN <<>>
    ELSE LET r == CHOOSE x \in rows : \A z \in rows : x.id <= z.id
         IN  <<r>> \o OrderById(rows \ {r})

\* the rows in descending created_at order; rows of one second in scan (id) order
RECURSIVE OrderByCreatedDesc(_)
OrderByCreatedDesc(rows) ==
    IF rows = {} THEN <<>>
    ELSE LET r == CHOOSE x \in rows : \A z \in rows :
                      \/ x.created_at > z.created_at
                      \/ x.created_at = z.created_at /\ x.id <= z.id
         IN  <<r>> \o OrderByCreatedDesc(rows \ {r})

\* a pair left in the caller's order
sorted_NoSwap(a, b) == <<a, b>>

\* sorted([a_id, b_id])
sorted(a, b) == IF a <= b THEN <<a, b>> ELSE <<b, a>>

\* The connection db() opens: sqlite3.connect issues no PRAGMA foreign_keys=ON,
\* so SQLite leaves FOREIGN KEY clauses unenforced.
ForeignKeysOn == FALSE

\* the columns CREATE TABLE users declares
UsersColumns == {"id", "email", "username", "first_name", "last_name",
                 "avatar", "password", "is_admin"}

\* the seven gifts the chat page offers, by their labels in English
GIFTS == {"Gift", "Flowers", "Chocolate", "Diamond", "Rocket", "Star", "Dove"}

--------------------------------------------------------------------------
(* The store *)

\* AUTOINCREMENT: one more than the largest id the table ever held
NextId(t) == seq[t] + 1

\* room for one more content row within the model's bound
CanInsert == seq["posts"] + seq["comments"] + seq["likes"] < MaxContentRows

\* room for n more chat rows within the model's bound
ChatRoom(n) == seq["chats"] + seq["messages"] + n <= MaxChatRows

Bump(t) == [seq EXCEPT ![t] = @ + 1]

\* a lookup that ignores the cookie and returns the first registered user
cur_user_FirstUser(cookie) == {u \in users : u.id = 1}

\* SELECT * FROM users WHERE username=? for the cookie's value
cur_user(cookie) ==
    IF cookie = <<>> THEN {} ELSE {u \in users : u.username = cookie}

\* SELECT * FROM users WHERE username=?
UserByName(name) == {u \in users : u.username = name}

TheRow(rows) == CHOOSE r \in rows : TRUE

Response(op, cookie, args, status, body, out) ==
    [op |-> op, cookie |-> cookie, args |-> args, status |-> status,
     body |-> body, out |-> out]

NoOut == [none |-> TRUE]

\* the requests in progress at once: handlers are plain def functions, which
\* FastAPI runs on worker threads, each with its own connection
Procs == {"r1", "r2"}

Init ==
    /\ users = {}
    /\ posts = {}
    /\ comments = {}
    /\ likes = {}
    /\ chats = {}
    /\ messages = {}
    /\ channels = {}
    /\ channel_messages = {}
    /\ seq = [t \in TableNames |-> 0]
    /\ files = {}
    /\ now = 0
    /\ resp = Response("none", <<>>, NoOut, 0, "", NoOut)
    /\ pc = [p \in Procs |-> "idle"]
    /\ loc = [p \in Procs |-> NoOut]

--------------------------------------------------------------------------
(* Files under static/ *)

\* a NULL avatar or image column
NoFile == [dir |-> "", stamp |-> -1, name |-> <<>>]

\* f"static/avatars/{clean_username}.png"
avatar_file(username) ==
    [dir |-> "static/avatars", stamp |-> -1, name |-> lstrip(username, {"@"})]

\* f"static/posts/{int(time.time())}_{image.filename}"
post_file(filename) == [dir |-> "static/posts", stamp |-> now, name |-> filename]

--------------------------------------------------------------------------
(* Statements of the identity store *)

\* SELECT 1 FROM users WHERE username=? OR email=?
RegisterExists(email, username) ==
    {u \in users : u.username = username \/ u.email = email}

\* email TEXT UNIQUE, username TEXT UNIQUE
UsersUnique(row) ==
    \A u \in users : u.email # row.email /\ u.username # row.username

\* the row INSERT INTO users(...) builds; is_admin takes its DEFAULT 0
NewUser(email, username, avatar) ==
    [id |-> NextId("users"), email |-> email, username |-> username,
     first_name |-> RegFirstName, last_name |-> RegLastName,
     avatar |-> IF avatar # <<>> THEN avatar_file(username) ELSE NoFile,
     is_admin |-> 0]

--------------------------------------------------------------------------
(* Statements of the content store *)

\* SELECT * FROM posts WHERE id=?
PostById(post_id) == {q \in posts : q.id = post_id}

\* a delete_post that skips the permission test
MayDelete_NoCheck(me, post) == TRUE

\* post["user_id"] != me["id"] and not me["is_admin"], negated
MayDelete(me, post) == post.user_id = me.id \/ me.is_admin # 0

\* DELETE FROM posts WHERE id=?, on the comments table: the ON DELETE CASCADE
\* of comments.post_id acts only on a connection that enforces foreign keys
CommentsAfterPostDelete(post_id) ==
    IF ForeignKeysOn THEN {c \in comments : c.post_id # post_id} ELSE comments

\* DELETE FROM posts WHERE id=?, on the likes table: likes declares no
\* foreign key, so the statement leaves it alone
LikesAfterPostDelete(post_id) == likes

\* SELECT id FROM likes WHERE user_id=? AND post_id=?
LikeRow(user_id, post_id) ==
    {l \in likes : l.user_id = user_id /\ l.post_id = post_id}

\* a likes table without its UNIQUE constraint
LikesUnique_Off(row) == TRUE

\* UNIQUE(user_id, post_id)
LikesUnique(row) ==
    \A l \in likes : ~(l.user_id = row.user_id /\ l.post_id = row.post_id)

\* a count that drops the WHERE post_id=? clause
LikeCount_AllPosts(ls, post_id) == Cardinality(ls)

\* SELECT COUNT(*) FROM likes WHERE post_id=?, on the table ls
LikeCount(ls, post_id) == Cardinality({l \in ls : l.post_id = post_id})

\* the posts of the home page: posts JOIN users, newest first
home_posts ==
    OrderByCreatedDesc({q \in posts : \E u \in users : u.id = q.user_id})

\* the rows in ascending (created_at, id) order
RECURSIVE OrderByCreatedAsc(_)
OrderByCreatedAsc(rows) ==
    IF rows = {} THEN <<>>
    ELSE LET r == CHOOSE x \in rows : \A z \in rows :
                      \/ x.created_at < z.created_at
                      \/ x.created_at = z.created_at /\ x.id <= z.id
         IN  <<r>> \o OrderByCreatedAsc(rows \ {r})

\* comments JOIN users, grouped by post_id, oldest first
comments_by_post ==
    LET rows == {c \in comments : \E u \in users : u.id = c.user_id}
    IN  [pid \in {c.post_id : c \in rows} |->
            OrderByCreatedAsc({c \in rows : c.post_id = pid})]

--------------------------------------------------------------------------
(* Requests served one at a time: each action is a whole handler *)

Quiet == UNCHANGED <<pc, loc>>

\* POST /register
register(email, username, avatar) ==
    LET args == [email |-> email, username |-> username, avatar |-> avatar]
        row  == NewUser(email, username, avatar)
    IN
    /\ Quiet
    /\ UNCHANGED <<channel_store, posts, comments, likes, chats, messages, now>>
    /\ IF ~valid_username(username)
       THEN /\ resp' = Response("register", <<>>, args, 303,
                                "/register?e=bad_username", NoOut)
            /\ UNCHANGED <<users, seq, files>>
       ELSE IF RegisterExists(email, username) # {}
       THEN /\ resp' = Response("register", <<>>, args, 303,
                                "/register?e=exists", NoOut)
            /\ UNCHANGED <<users, seq, files>>
       ELSE /\ files' = IF avatar # <<>>
                        THEN files \cup {avatar_file(username)} ELSE files
            /\ IF UsersUnique(row)
               THEN /\ users' = users \cup {row}
                    /\ seq' = Bump("users")
                    /\ resp' = Response("register", <<>>, args, 303, "/",
                                        [set_cookie |-> username])
               ELSE /\ resp' = Response("register", <<>>, args, 500,
                                        "IntegrityError", NoOut)
                    /\ UNCHANGED <<users, seq>>

\* is_admin is set outside the application, on a row that exists
grant_admin(user_id) ==
    /\ \E u \in users : u.id = user_id /\ u.is_admin = 0
    /\ users' = {IF u.id = user_id THEN [u EXCEPT !.is_admin = 1] ELSE u :
                 u \in users}
    /\ UNCHANGED <<channel_store, posts, comments, likes, chats, messages, seq, files, now,
                   resp, pc, loc>>

\* int(time.time()) moves on
tick ==
    /\ now < MaxTime
    /\ now' = now + 1
    /\ UNCHANGED <<channel_store, users, posts, comments, likes, chats, messages, seq, files,
                   resp, pc, loc>>

\* POST /post
create_post(cookie, content, image) ==
    LET me   == cur_user(cookie)
        args == [content |-> content, image |-> image]
        img  == IF image # <<>> THEN post_file(image) ELSE NoFile
    IN
    /\ Quiet
    /\ UNCHANGED <<channel_store, users, comments, likes, chats, messages, now>>
    /\ IF me = {}
       THEN /\ resp' = Response("create_post", cookie, args, 303, "/login", NoOut)
            /\ UNCHANGED <<posts, seq, files>>
       ELSE /\ CanInsert
            /\ files' = IF image # <<>> THEN files \cup {img} ELSE files
            /\ posts' = posts \cup
                 {[id |-> NextId("posts"), user_id |-> TheRow(me).id,
                   content |-> content, image |-> img, created_at |-> now]}
            /\ seq' = Bump("posts")
            /\ resp' = Response("create_post", cookie, args, 303, "/", NoOut)

\* POST /post/{post_id}/comment
add_comment(cookie, post_id, content) ==
    LET user == cur_user(cookie)
        args == [post_id |-> post_id, content |-> content]
        text == strip(content)
    IN
    /\ Quiet
    /\ UNCHANGED <<channel_store, users, posts, likes, chats, messages, files, now>>
    /\ IF user = {}
       THEN /\ resp' = Response("add_comment", cookie, args, 303, "/login", NoOut)
            /\ UNCHANGED <<comments, seq>>
       ELSE IF text = <<>>
       THEN /\ resp' = Response("add_comment", cookie, args, 303, "/", NoOut)
            /\ UNCHANGED <<comments, seq>>
       ELSE IF PostById(post_id) = {}
       THEN /\ resp' = Response("add_comment", cookie, args, 404,
                                "Post not found", NoOut)
            /\ UNCHANGED <<comments, seq>>
       ELSE /\ CanInsert
            /\ comments' = comments \cup
                 {[id |-> NextId("comments"), post_id |-> post_id,
                   user_id |-> TheRow(user).id, content |-> text,
                   created_at |-> now]}
            /\ seq' = Bump("comments")
            /\ resp' = Response("add_comment", cookie, args, 303, "/", NoOut)

\* POST /post/{post_id}/delete
delete_post(cookie, post_id) ==
    LET me   == cur_user(cookie)
        post == PostById(post_id)
        args == [post_id |-> post_id]
    IN
    /\ Quiet
    /\ UNCHANGED <<channel_store, users, chats, messages, seq, now>>
    /\ IF me = {}
       THEN /\ resp' = Response("delete_post", cookie, args, 303, "/login", NoOut)
            /\ UNCHANGED <<posts, comments, likes, files>>
       ELSE IF post = {}
       THEN /\ resp' = Response("delete_post", cookie, args, 404,
                                "Post not found", NoOut)
            /\ UNCHANGED <<posts, comments, likes, files>>
       ELSE IF ~MayDelete(TheRow(me), TheRow(post))
       THEN /\ resp' = Response("delete_post", cookie, args, 403,
                                "Permission denied", NoOut)
            /\ UNCHANGED <<posts, comments, likes, files>>
       ELSE /\ files' = files \ {TheRow(post).image}
            /\ posts' = posts \ post
            /\ comments' = CommentsAfterPostDelete(post_id)
            /\ likes' = LikesAfterPostDelete(post_id)
            /\ resp' = Response("delete_post", cookie, args, 303, "/", NoOut)

\* POST /like/{post_id}
toggle_like(cookie, post_id) ==
    LET me   == cur_user(cookie)
        args == [post_id |-> post_id]
    IN
    /\ Quiet
    /\ UNCHANGED <<channel_store, users, posts, comments, chats, messages, files, now>>
    /\ IF me = {}
       THEN \* JSONResponse is not imported: NameError
            /\ resp' = Response("toggle_like", cookie, args, 500, "NameError", NoOut)
            /\ UNCHANGED <<likes, seq>>
       ELSE LET row == LikeRow(TheRow(me).id, post_id)
                new == [id |-> NextId("likes"), user_id |-> TheRow(me).id,
                        post_id |-> post_id]
            IN  IF row # {}
                THEN /\ likes' = {l \in likes : l.id # TheRow(row).id}
                     /\ UNCHANGED seq
                     /\ resp' = Response("toggle_like", cookie, args, 200,
                                  "unliked", [count |-> LikeCount(likes', post_id)])
                ELSE /\ CanInsert
                     /\ IF LikesUnique(new)
                        THEN /\ likes' = likes \cup {new}
                             /\ seq' = Bump("likes")
                             /\ resp' = Response("toggle_like", cookie, args, 200,
                                  "liked", [count |-> LikeCount(likes', post_id)])
                        ELSE /\ resp' = Response("toggle_like", cookie, args, 500,
                                                 "IntegrityError", NoOut)
                             /\ UNCHANGED <<likes, seq>>

\* GET /: the query names users.is_verified, a column the schema does not
\* declare, so the statement raises OperationalError
home(cookie) ==
    /\ Quiet
    /\ UNCHANGED <<channel_store, users, posts, comments, likes, chats, messages, seq, files, now>>
    /\ resp' = IF "is_verified" \in UsersColumns
               THEN Response("home", cookie, NoOut, 200, "index.html",
                             [posts |-> home_posts,
                              comments_by_post |-> comments_by_post])
               ELSE Response("home", cookie, NoOut, 500, "OperationalError", NoOut)

\* the e-mail address each person registers with
EmailOf(u) == IF u = ANN THEN "ann@x" ELSE "bob@x"

NextContent ==
    \/ \E u \in Names : register(EmailOf(u), u, <<>>)
    \/ \E u \in users : grant_admin(u.id)
    \/ \E c \in Names, f \in FileInputs : create_post(c, <<"h", "i">>, f)
    \/ \E c \in Names, i \in PostIdInputs, t \in ContentInputs :
          add_comment(c, i, t)
    \/ \E c \in Names, i \in PostIdInputs : delete_post(c, i)
    \/ \E c \in Names, i \in PostIdInputs : toggle_like(c, i)
    \/ \E c \in Names : home(c)

SpecContent == Init /\ [][NextContent]_vars

--------------------------------------------------------------------------
(* Claims about the content store *)

\* C2: a toggle_like by an authenticated actor, run on its own, answers
\* "liked" when the actor had no like on the post and "unliked" when it had
\* one, flips that like, and returns the number of like rows the post has
\* after the change.
C2_ToggleAlternates ==
    [][\A c \in Names, i \in PostIdInputs :
        (toggle_like(c, i) /\ cur_user(c) # {}) =>
            LET uid    == TheRow(cur_user(c)).id
                before == \E l \in likes : l.user_id = uid /\ l.post_id = i
                after  == \E l \in likes' : l.user_id = uid /\ l.post_id = i
            IN  /\ resp'.status = 200
                /\ resp'.body = (IF before THEN "unliked" ELSE "liked")
                /\ after = ~before
                /\ resp'.out.count =
                      Cardinality({l \in likes' : l.post_id = i})]_vars

\* a like was taken back while another user's like on the post stayed
C2_Witness ==
    /\ resp.op = "toggle_like"
    /\ resp.body = "unliked"
    /\ resp.out.count = 1

\* the post ids the home page's context refers to
FeedPostIds ==
    {home_posts[k].id : k \in 1..Len(home_posts)} \cup DOMAIN comments_by_post

\* C6: after a successful delete_post no comments row and no likes row has
\* the post's id, and the feed refers to no such post.
C6_DeleteCascades ==
    (resp.op = "delete_post" /\ resp.status = 303 /\ resp.body = "/") =>
        LET pid == resp.args.post_id
        IN  /\ \A c \in comments : c.post_id # pid
            /\ \A l \in likes : l.post_id # pid
            /\ pid \notin FeedPostIds

\* C7: delete_post by an authenticated actor removes the post only for its
\* owner or an admin; anyone else gets 403, a missing post 404, and then the
\* posts table and the files stay as they were.
C7_DeletePermission ==
    [][\A c \in Names, i \in PostIdInputs :
        (delete_post(c, i) /\ cur_user(c) # {}) =>
            LET me      == TheRow(cur_user(c))
                post    == {q \in posts : q.id = i}
                allowed == \E q \in post : q.user_id = me.id \/ me.is_admin = 1
            IN  /\ post = {} =>
                     resp'.status = 404 /\ posts' = posts /\ files' = files
                /\ (post # {} /\ ~allowed) =>
                     resp'.status = 403 /\ posts' = posts /\ files' = files
                /\ (post # {} /\ allowed) =>
                     resp'.status = 303 /\ posts' = posts \ post]_vars

\* a user who is neither owner nor admin was refused while the post had an image
C7_Witness ==
    /\ resp.op = "delete_post"
    /\ resp.status = 403
    /\ \E q \in posts : q.id = resp.args.post_id /\ q.image \in files

\* an admin deleted someone else's post
C7_WitnessAdmin ==
    /\ resp.op = "delete_post"
    /\ resp.status = 303
    /\ resp.body = "/"
    /\ \E u \in users : u.username = resp.cookie /\ u.is_admin = 1

--------------------------------------------------------------------------
(* Statements of the direct messaging store *)

\* SELECT id FROM chats WHERE user1_id=? AND user2_id=?
ChatRow(x, y) == {c \in chats : c.user1_id = x /\ c.user2_id = y}

\* UNIQUE(user1_id,user2_id)
ChatsUnique(row) ==
    \A c \in chats : ~(c.user1_id = row.user1_id /\ c.user2_id = row.user2_id)

\* the row INSERT INTO chats(user1_id,user2_id) builds
NewChat(x, y) == [id |-> NextId("chats"), user1_id |-> x, user2_id |-> y]

\* chat_id_for run without interruption: the id it returns, the chats table
\* and the AUTOINCREMENT counters it leaves, and whether the INSERT raised
chat_id_for(a_id, b_id) ==
    LET xy  == sorted(a_id, b_id)
        row == ChatRow(xy[1], xy[2])
        new == NewChat(xy[1], xy[2])
    IN  IF row # {}
        THEN [raised |-> FALSE, id |-> TheRow(row).id, chats |-> chats, seq |-> seq]
        ELSE IF ChatsUnique(new)
        THEN [raised |-> FALSE, id |-> new.id, chats |-> chats \cup {new},
              seq |-> Bump("chats")]
        ELSE [raised |-> TRUE, id |-> 0, chats |-> chats, seq |-> seq]

\* the rows chat_id_for would insert for the pair: 0 or 1
ChatRowsNeeded(a_id, b_id) ==
    IF ChatRow(sorted(a_id, b_id)[1], sorted(a_id, b_id)[2]) = {} THEN 1 ELSE 0

\* a message list in descending id order
MessagesOf_Desc(ms, cid) ==
    LET asc == OrderById({m \in ms : m.chat_id = cid /\
                                      \E u \in users : u.id = m.sender_id})
    IN  [k \in 1..Len(asc) |-> asc[Len(asc) + 1 - k]]

\* SELECT m.* FROM messages m JOIN users us ON us.id=m.sender_id
\* WHERE m.chat_id=? ORDER BY m.id ASC, on the table ms
MessagesOf(ms, cid) ==
    OrderById({m \in ms : m.chat_id = cid /\ \E u \in users : u.id = m.sender_id})

\* the row INSERT INTO messages(chat_id,sender_id,kind,body,created_at) builds,
\* with the id the counters sq give it
NewMessage(sq, cid, sender_id, kind, body) ==
    [id |-> sq["messages"] + 1, chat_id |-> cid, sender_id |-> sender_id,
     kind |-> kind, body |-> body, created_at |-> now]

\* chat_send and chat_gift after the cookie check: they differ in the kind
\* and in the name of the form field
SendMessage(op, cookie, username, kind, body) ==
    LET me   == cur_user(cookie)
        peer == UserByName(username)
        args == [username |-> username, body |-> body]
    IN
    /\ Quiet
    /\ UNCHANGED <<channel_store, users, posts, comments, likes, files, now>>
    /\ IF me = {}
       THEN /\ resp' = Response(op, cookie, args, 303, "/login", NoOut)
            /\ UNCHANGED <<chats, messages, seq>>
       ELSE IF peer = {}
       THEN \* peer["id"] on None: TypeError
            /\ resp' = Response(op, cookie, args, 500, "TypeError", NoOut)
            /\ UNCHANGED <<chats, messages, seq>>
       ELSE LET r == chat_id_for(TheRow(me).id, TheRow(peer).id)
            IN  /\ ChatRoom(ChatRowsNeeded(TheRow(me).id, TheRow(peer).id) + 1)
                /\ chats' = r.chats
                /\ IF r.raised
                   THEN /\ resp' = Response(op, cookie, args, 500,
                                            "IntegrityError", NoOut)
                        /\ UNCHANGED <<messages, seq>>
                   ELSE /\ messages' = messages \cup
                            {NewMessage(r.seq, r.id, TheRow(me).id, kind, body)}
                        /\ seq' = [r.seq EXCEPT !["messages"] = @ + 1]
                        /\ resp' = Response(op, cookie, args, 303, "/chat/{username}",
                                            [cid |-> r.id])

\* POST /chats/new; out.cid is the value chat_id_for returned
start_chat(cookie, peer_username) ==
    LET me   == cur_user(cookie)
        peer == UserByName(peer_username)
        args == [username |-> peer_username]
    IN
    /\ Quiet
    /\ UNCHANGED <<channel_store, users, posts, comments, likes, messages, files, now>>
    /\ IF me = {}
       THEN /\ resp' = Response("start_chat", cookie, args, 303, "/login", NoOut)
            /\ UNCHANGED <<chats, seq>>
       ELSE IF peer = {}
       THEN /\ resp' = Response("start_chat", cookie, args, 303,
                                "/chats?e=nouser", NoOut)
            /\ UNCHANGED <<chats, seq>>
       ELSE LET r == chat_id_for(TheRow(me).id, TheRow(peer).id)
            IN  /\ ChatRoom(ChatRowsNeeded(TheRow(me).id, TheRow(peer).id))
                /\ chats' = r.chats
                /\ seq' = r.seq
                /\ resp' = IF r.raised
                           THEN Response("start_chat", cookie, args, 500,
                                         "IntegrityError", NoOut)
                           ELSE Response("start_chat", cookie, args, 303,
                                         "/chat/{peer_username}", [cid |-> r.id])

\* GET /chat/{username}
chat_view(cookie, username) ==
    LET me   == cur_user(cookie)
        peer == UserByName(username)
        args == [username |-> username]
    IN
    /\ Quiet
    /\ UNCHANGED <<channel_store, users, posts, comments, likes, messages, files, now>>
    /\ IF me = {}
       THEN /\ resp' = Response("chat_view", cookie, args, 303, "/login", NoOut)
            /\ UNCHANGED <<chats, seq>>
       ELSE IF peer = {}
       THEN /\ resp' = Response("chat_view", cookie, args, 303,
                                "/chats?e=nouser", NoOut)
            /\ UNCHANGED <<chats, seq>>
       ELSE LET r == chat_id_for(TheRow(me).id, TheRow(peer).id)
            IN  /\ ChatRoom(ChatRowsNeeded(TheRow(me).id, TheRow(peer).id))
                /\ chats' = r.chats
                /\ seq' = r.seq
                /\ resp' = IF r.raised
                           THEN Response("chat_view", cookie, args, 500,
                                         "IntegrityError", NoOut)
                           ELSE Response("chat_view", cookie, args, 200, "chat.html",
                                         [cid |-> r.id,
                                          messages |-> MessagesOf(messages, r.id)])

\* POST /chat/{username}/send
chat_send(cookie, username, text) ==
    SendMessage("chat_send", cookie, username, "text", text)

\* POST /chat/{username}/gift
chat_gift(cookie, username, gift_name) ==
    SendMessage("chat_gift", cookie, username, "gift", gift_name)

NextChat ==
    \/ \E u \in Names : register(EmailOf(u), u, <<>>)
    \/ tick
    \/ \E c \in Names, u \in Names : start_chat(c, u)
    \/ \E c \in Names, u \in Names : chat_view(c, u)
    \/ \E c \in Names, u \in Names, t \in TextInputs : chat_send(c, u, t)
    \/ \E c \in Names, u \in Names, g \in GiftInputs : chat_gift(c, u, g)

SpecChat == Init /\ [][NextChat]_vars

--------------------------------------------------------------------------
(* Claims about the direct messaging store *)

\* the chats rows of table cs that join users a and b, in either order
PairRows(cs, a, b) ==
    {r \in cs : \/ r.user1_id = a /\ r.user2_id = b
                \/ r.user1_id = b /\ r.user2_id = a}

\* a request of user c about the chat with user u got through chat_id_for
ChatCall(c, u) ==
    \/ start_chat(c, u)
    \/ chat_view(c, u)
    \/ \E t \in TextInputs : chat_send(c, u, t)
    \/ \E g \in GiftInputs : chat_gift(c, u, g)

\* C3: for two different users, a call of chat_id_for made on its own returns
\* the id of the one chats row of the unordered pair, whichever of the two
\* calls: it creates the row when there is none and leaves the table alone
\* when there is one, and no row is ever changed or removed.
C3_ChatIdSymmetric ==
    [][/\ chats \subseteq chats'
       /\ \A c \in Names, u \in Names :
            (ChatCall(c, u) /\ c # u /\ cur_user(c) # {} /\ UserByName(u) # {}) =>
                LET a      == TheRow(cur_user(c)).id
                    b      == TheRow(UserByName(u)).id
                    before == PairRows(chats, a, b)
                    after  == PairRows(chats', a, b)
                IN  /\ Cardinality(after) = 1
                    /\ resp'.out.cid = TheRow(after).id
                    /\ before # {} => chats' = chats]_vars

\* the user with the larger id asked for a chat that the other user had opened
C3_Witness ==
    /\ resp.op = "start_chat"
    /\ resp.status = 303
    /\ \E me \in users, peer \in users :
          /\ me.username = resp.cookie
          /\ peer.username = resp.args.username
          /\ me.id > peer.id
          /\ seq["chats"] = 1
          /\ \E r \in chats : r.id = resp.out.cid /\ r.user1_id = peer.id
                               /\ r.user2_id = me.id

\* C5: every chats row joins two different users, the smaller id first.
C5_ChatPairOrdered == \A r \in chats : r.user1_id < r.user2_id

\* C9: a message sent from a to b or from b to a is stored under the id of
\* the one chat of the two, with an id above every stored message's, and the
\* list chat_view shows is exactly that chat's messages in ascending id, so in
\* the order the sends were committed.
C9_MessagesInSendOrder ==
    [][\A c \in Names, u \in Names :
        LET me   == cur_user(c)
            peer == UserByName(u)
        IN  (me # {} /\ peer # {}) =>
            LET a     == TheRow(me).id
                b     == TheRow(peer).id
                after == PairRows(chats', a, b)
            IN
            /\ \A body \in TextInputs \cup GiftInputs :
                 (chat_send(c, u, body) \/ chat_gift(c, u, body)) =>
                    /\ Cardinality(after) = 1
                    /\ \E m \in messages' :
                          /\ messages' = messages \cup {m}
                          /\ m.chat_id = TheRow(after).id
                          /\ m.sender_id = a
                          /\ m.body = body
                          /\ \A old \in messages : old.id < m.id
                          /\ \A old \in messages : old.created_at <= m.created_at
            /\ chat_view(c, u) =>
                 LET shown == resp'.out.messages
                 IN  /\ Cardinality(after) = 1
                     /\ {shown[k] : k \in 1..Len(shown)} =
                          {m \in messages : m.chat_id = TheRow(after).id}
                     /\ \A k \in 1..Len(shown) - 1 : shown[k].id < shown[k + 1].id
       ]_vars

\* the chat page lists a message of one user and then the other user's answer
C9_Witness ==
    /\ resp.op = "chat_view"
    /\ resp.status = 200
    /\ Len(resp.out.messages) = 2
    /\ resp.out.messages[1].sender_id # resp.out.messages[2].sender_id
    /\ resp.out.messages[1].chat_id = resp.out.messages[2].chat_id

\* C10: every messages row is of kind text or gift, and a gift's body is one
\* of the catalog's gifts.
C10_GiftFromCatalog ==
    \A m \in messages :
        /\ m.kind \in {"text", "gift"}
        /\ m.kind = "gift" => m.body \in GIFTS

--------------------------------------------------------------------------
(* Requests served at once: each action is one statement of a handler,     *)
(* together with the local steps up to the next statement. pc[p] is the    *)
(* statement request p runs next, loc[p] its local variables, and, at      *)
(* "done", its response. SQLite runs statements of different connections   *)
(* one after another; a statement that breaks a UNIQUE constraint raises   *)
(* IntegrityError, which no handler catches.                               *)

Free(p) == pc[p] \in {"idle", "done"}

Goto(p, label, locals) ==
    /\ pc' = [pc EXCEPT ![p] = label]
    /\ loc' = [loc EXCEPT ![p] = locals]

Finish(p, response) == Goto(p, "done", response)

\* register up to its INSERT: the name test, the SELECT and the avatar file
reg_check(p, email, username, avatar) ==
    LET args == [email |-> email, username |-> username, avatar |-> avatar]
    IN
    /\ Free(p)
    /\ UNCHANGED <<channel_store, users, posts, comments, likes, chats, messages, seq, now, resp>>
    /\ IF ~valid_username(username)
       THEN /\ Finish(p, Response("register", <<>>, args, 303,
                                  "/register?e=bad_username", NoOut))
            /\ UNCHANGED files
       ELSE IF RegisterExists(email, username) # {}
       THEN /\ Finish(p, Response("register", <<>>, args, 303,
                                  "/register?e=exists", NoOut))
            /\ UNCHANGED files
       ELSE /\ files' = IF avatar # <<>>
                        THEN files \cup {avatar_file(username)} ELSE files
            /\ Goto(p, "reg_insert", args)

\* register's INSERT INTO users and commit
reg_insert(p) ==
    LET args == loc[p]
        row  == NewUser(args.email, args.username, args.avatar)
    IN
    /\ pc[p] = "reg_insert"
    /\ UNCHANGED <<channel_store, posts, comments, likes, chats, messages, files, now, resp>>
    /\ IF UsersUnique(row)
       THEN /\ users' = users \cup {row}
            /\ seq' = Bump("users")
            /\ Finish(p, Response("register", <<>>, args, 303, "/",
                                  [set_cookie |-> args.username]))
       ELSE /\ UNCHANGED <<users, seq>>
            /\ Finish(p, Response("register", <<>>, args, 500,
                                  "IntegrityError", NoOut))

\* toggle_like up to its write: cur_user and the SELECT of the like row
like_select(p, cookie, post_id) ==
    LET me   == cur_user(cookie)
        args == [post_id |-> post_id]
    IN
    /\ Free(p)
    /\ UNCHANGED <<channel_store, users, posts, comments, likes, chats, messages, seq, files,
                   now, resp>>
    /\ IF me = {}
       THEN Finish(p, Response("toggle_like", cookie, args, 500, "NameError", NoOut))
       ELSE Goto(p, "like_write",
                 [cookie |-> cookie, post_id |-> post_id, user_id |-> TheRow(me).id,
                  row |-> LikeRow(TheRow(me).id, post_id)])

\* toggle_like's DELETE or INSERT, and commit
like_write(p) ==
    LET l    == loc[p]
        new  == [id |-> NextId("likes"), user_id |-> l.user_id,
                 post_id |-> l.post_id]
    IN
    /\ pc[p] = "like_write"
    /\ UNCHANGED <<channel_store, users, posts, comments, chats, messages, files, now, resp>>
    /\ IF l.row # {}
       THEN /\ likes' = {x \in likes : x.id # TheRow(l.row).id}
            /\ UNCHANGED seq
            /\ Goto(p, "like_count", l @@ [status |-> "unliked"])
       ELSE /\ CanInsert
            /\ IF LikesUnique(new)
               THEN /\ likes' = likes \cup {new}
                    /\ seq' = Bump("likes")
                    /\ Goto(p, "like_count", l @@ [status |-> "liked"])
               ELSE /\ UNCHANGED <<likes, seq>>
                    /\ Finish(p, Response("toggle_like", l.cookie,
                                          [post_id |-> l.post_id], 500,
                                          "IntegrityError", NoOut))

\* toggle_like's SELECT COUNT(*) and its answer
like_count(p) ==
    LET l == loc[p]
    IN
    /\ pc[p] = "like_count"
    /\ UNCHANGED <<channel_store, users, posts, comments, likes, chats, messages, seq, files,
                   now, resp>>
    /\ Finish(p, Response("toggle_like", l.cookie, [post_id |-> l.post_id], 200,
                          l.status, [count |-> LikeCount(likes, l.post_id)]))

\* start_chat or chat_send up to chat_id_for's INSERT: cur_user, the SELECT
\* of the peer and chat_id_for's SELECT. out.found tells whether that SELECT
\* returned a row.
chat_select(p, op, cookie, username, text) ==
    LET me   == cur_user(cookie)
        peer == UserByName(username)
        args == [username |-> username, body |-> text]
    IN
    /\ Free(p)
    /\ UNCHANGED <<channel_store, users, posts, comments, likes, chats, messages, seq, files,
                   now, resp>>
    /\ IF me = {}
       THEN Finish(p, Response(op, cookie, args, 303, "/login", NoOut))
       ELSE IF peer = {}
       THEN IF op = "start_chat"
            THEN Finish(p, Response(op, cookie, args, 303, "/chats?e=nouser", NoOut))
            ELSE Finish(p, Response(op, cookie, args, 500, "TypeError", NoOut))
       ELSE LET xy  == sorted(TheRow(me).id, TheRow(peer).id)
                row == ChatRow(xy[1], xy[2])
                l   == [op |-> op, cookie |-> cookie, args |-> args,
                        me |-> TheRow(me).id, x |-> xy[1], y |-> xy[2],
                        found |-> row # {},
                        cid |-> IF row # {} THEN TheRow(row).id ELSE 0]
            IN  IF row = {}
                THEN Goto(p, "chat_insert", l)
                ELSE IF op = "start_chat"
                THEN Finish(p, Response(op, cookie, args, 303, "/chat/{peer_username}",
                                        [cid |-> l.cid, x |-> l.x, y |-> l.y,
                                         found |-> TRUE]))
                ELSE Goto(p, "msg_insert", l)

\* chat_id_for's INSERT INTO chats, commit and last_insert_rowid()
chat_insert(p) ==
    LET l   == loc[p]
        new == NewChat(l.x, l.y)
    IN
    /\ pc[p] = "chat_insert"
    /\ ChatRoom(1)
    /\ UNCHANGED <<channel_store, users, posts, comments, likes, messages, files, now, resp>>
    /\ IF ChatsUnique(new)
       THEN /\ chats' = chats \cup {new}
            /\ seq' = Bump("chats")
            /\ IF l.op = "start_chat"
               THEN Finish(p, Response(l.op, l.cookie, l.args, 303,
                                       "/chat/{peer_username}",
                                       [cid |-> new.id, x |-> l.x, y |-> l.y,
                                        found |-> FALSE]))
               ELSE Goto(p, "msg_insert", [l EXCEPT !.cid = new.id])
       ELSE /\ UNCHANGED <<chats, seq>>
            /\ Finish(p, Response(l.op, l.cookie, l.args, 500, "IntegrityError",
                                  [cid |-> 0, x |-> l.x, y |-> l.y, found |-> FALSE]))

\* chat_send's INSERT INTO messages and commit
msg_insert(p) ==
    LET l == loc[p]
    IN
    /\ pc[p] = "msg_insert"
    /\ ChatRoom(1)
    /\ UNCHANGED <<channel_store, users, posts, comments, likes, chats, files, now, resp>>
    /\ messages' = messages \cup {NewMessage(seq, l.cid, l.me, "text", l.args.body)}
    /\ seq' = Bump("messages")
    /\ Finish(p, Response(l.op, l.cookie, l.args, 303, "/chat/{username}",
                          [cid |-> l.cid, x |-> l.x, y |-> l.y, found |-> l.found]))

NextRegisterRace ==
    \E p \in Procs :
        \/ \E e \in EmailInputs, u \in UsernameInputs, a \in FileInputs :
              reg_check(p, e, u, a)
        \/ reg_insert(p)

NextLikeRace ==
    \E p \in Procs :
        \/ \E u \in Names : reg_check(p, EmailOf(u), u, <<>>)
        \/ reg_insert(p)
        \/ \E c \in Names, i \in PostIdInputs : like_select(p, c, i)
        \/ like_write(p)
        \/ like_count(p)

NextChatRace ==
    \E p \in Procs :
        \/ \E u \in Names : reg_check(p, EmailOf(u), u, <<>>)
        \/ reg_insert(p)
        \/ \E c \in Names, u \in Names : chat_select(p, "start_chat", c, u, "")
        \/ \E c \in Names, u \in Names, t \in TextInputs :
              chat_select(p, "chat_send", c, u, t)
        \/ chat_insert(p)
        \/ msg_insert(p)

SpecRegisterRace == Init /\ [][NextRegisterRace]_vars
SpecLikeRace == Init /\ [][NextLikeRace]_vars
SpecChatRace == Init /\ [][NextChatRace]_vars

--------------------------------------------------------------------------
(* Claims about requests served at once *)

\* C1: in every state, under every interleaving of toggle_like requests, the
\* likes table holds at most one row for a (user_id, post_id) pair.
C1_OneLikePerPair ==
    \A l1 \in likes, l2 \in likes :
        (l1.user_id = l2.user_id /\ l1.post_id = l2.post_id) => l1 = l2

\* two requests of one user on one post both read "no like"; one has
\* inserted and the other's INSERT was refused
C1_Witness ==
    \E p \in Procs, q \in Procs :
        /\ pc[p] = "like_count"
        /\ loc[p].status = "liked"
        /\ loc[p].row = {}
        /\ pc[q] = "done"
        /\ loc[q].op = "toggle_like"
        /\ loc[q].body = "IntegrityError"
        /\ loc[q].cookie = loc[p].cookie
        /\ loc[q].args.post_id = loc[p].post_id

\* request p is over and was a chat request that reached chat_id_for
ChatDone(p) ==
    /\ pc[p] = "done"
    /\ loc[p].op \in {"start_chat", "chat_send"}
    /\ loc[p].status # 303 \/ loc[p].body # "/login"
    /\ loc[p].body \notin {"/chats?e=nouser", "TypeError"}

\* C4: when two requests ran chat_id_for for one pair and the lookup of
\* each found no row, there is exactly one chats row for the pair, neither
\* request ended in a fault and both got that row's id.
C4_RaceInsertOrRetrieve ==
    \A p \in Procs, q \in Procs :
        (/\ p # q
         /\ ChatDone(p) /\ ChatDone(q)
         /\ loc[p].out.x = loc[q].out.x /\ loc[p].out.y = loc[q].out.y
         /\ ~loc[p].out.found /\ ~loc[q].out.found) =>
            LET rows == ChatRow(loc[p].out.x, loc[p].out.y)
            IN  /\ Cardinality(rows) = 1
                /\ loc[p].status # 500
                /\ loc[q].status # 500
                /\ loc[p].out.cid = TheRow(rows).id
                /\ loc[q].out.cid = TheRow(rows).id

\* C8: the users table holds at most one row per username and per e-mail
\* address, and a register whose username or e-mail address is taken answers
\* "exists" and leaves the table alone, whether the other row was there at
\* its existence check or arrived between the check and the INSERT.
C8_RegisterOnce ==
    [][/\ \A u1 \in users', u2 \in users' :
            (u1.username = u2.username \/ u1.email = u2.email) => u1 = u2
       /\ \A p \in Procs :
            /\ \A e \in EmailInputs, u \in UsernameInputs, a \in FileInputs :
                 (/\ reg_check(p, e, u, a)
                  /\ valid_username(u)
                  /\ \E r \in users : r.username = u \/ r.email = e) =>
                     /\ loc'[p].body = "/register?e=exists"
                     /\ users' = users
            /\ (/\ reg_insert(p)
                /\ \E r \in users : \/ r.username = loc[p].username
                                    \/ r.email = loc[p].email) =>
                     /\ pc'[p] = "done"
                     /\ loc'[p].body = "/register?e=exists"
                     /\ users' = users]_vars

--------------------------------------------------------------------------
(* Claims about create_post *)

NextPost ==
    \/ \E u \in Names : register(EmailOf(u), u, <<>>)
    \/ \E c \in Names, t \in PostContentInputs : create_post(c, t, <<>>)
    \/ \E c \in Names, t \in ContentInputs : add_comment(c, 1, t)

SpecPost == Init /\ [][NextPost]_vars

\* C11: every posts row has content that is not empty after trimming, a
\* create_post with such content being rejected.
C11_PostContentNonEmpty == \A q \in posts : strip(q.content) # <<>>

--------------------------------------------------------------------------
(* Statements and handlers of the channel store *)

\* room for one more channel row within the model's bound
ChannelRoom == seq["channels"] + seq["channel_messages"] < MaxChannelRows

\* name TEXT UNIQUE
ChannelsUnique(row) == \A c \in channels : c.name # row.name

\* the row INSERT INTO channels(name, description, owner_id) builds
NewChannel(name, description, owner_id) ==
    [id |-> NextId("channels"), name |-> name, description |-> description,
     owner_id |-> owner_id]

\* the index of the last "." of s that has a character other than "." before
\* it, or 0
ExtStart(s) ==
    LET dots == {k \in 1..Len(s) : s[k] = "." /\ \E j \in 1..(k - 1) : s[j] # "."}
    IN  IF dots = {} THEN 0 ELSE CHOOSE k \in dots : \A j \in dots : j <= k

\* os.path.splitext(image.filename)[1], for a name without directories
splitext_ext(s) == IF ExtStart(s) = 0 THEN <<>> ELSE SubSeq(s, ExtStart(s), Len(s))

\* f"static/channel_uploads/{int(time.time())}{ext}"
channel_file(filename) ==
    [dir |-> "static/channel_uploads", stamp |-> now, name |-> splitext_ext(filename)]

\* POST /channels/create
create_channel(cookie, name, description) ==
    LET me   == cur_user(cookie)
        args == [name |-> name, description |-> description]
    IN
    /\ Quiet
    /\ UNCHANGED <<users, posts, comments, likes, chats, messages,
                   channel_messages, files, now>>
    /\ IF me = {} \/ (me # {} /\ TheRow(me).is_admin = 0)
       THEN /\ resp' = Response("create_channel", cookie, args, 403,
                                "Permission denied", NoOut)
            /\ UNCHANGED <<channels, seq>>
       ELSE LET row == NewChannel(name, description, TheRow(me).id)
            IN  /\ ChannelRoom
                /\ IF ChannelsUnique(row)
                   THEN /\ channels' = channels \cup {row}
                        /\ seq' = Bump("channels")
                        /\ resp' = Response("create_channel", cookie, args, 303,
                                            "/channels", NoOut)
                   ELSE /\ UNCHANGED <<channels, seq>>
                        /\ resp' = Response("create_channel", cookie, args, 500,
                                            "IntegrityError", NoOut)

\* POST /channel/{channel_id}/send
send_channel_message(cookie, channel_id, content, image) ==
    LET me   == cur_user(cookie)
        args == [channel_id |-> channel_id, content |-> content, image |-> image]
        img  == IF image # <<>> THEN channel_file(image) ELSE NoFile
    IN
    /\ Quiet
    /\ UNCHANGED <<users, posts, comments, likes, chats, messages, channels, now>>
    /\ IF me = {}
       THEN /\ resp' = Response("send_channel_message", cookie, args, 303,
                                "/login", NoOut)
            /\ UNCHANGED <<channel_messages, seq, files>>
       ELSE /\ ChannelRoom
            /\ files' = IF image # <<>> THEN files \cup {img} ELSE files
            /\ channel_messages' = channel_messages \cup
                 {[id |-> NextId("channel_messages"), channel_id |-> channel_id,
                   sender_id |-> TheRow(me).id, content |-> content,
                   image |-> img, created_at |-> now]}
            /\ seq' = Bump("channel_messages")
            /\ resp' = Response("send_channel_message", cookie, args, 303,
                                "/channel/{channel_id}", NoOut)

NextChannel ==
    \/ \E u \in Names : register(EmailOf(u), u, <<>>)
    \/ \E u \in users : grant_admin(u.id)
    \/ \E c \in CookieInputs, n \in ChannelNameInputs : create_channel(c, n, "")
    \/ \E c \in Names, i \in ChannelIdInputs, t \in TextInputs, f \in FileInputs :
          send_channel_message(c, i, t, f)

SpecChannel == Init /\ [][NextChannel]_vars

\* C12: create_channel inserts a row only for an authenticated admin, with
\* the actor as owner; anyone else gets 403 and the table stays; a name in
\* use is answered without a fault and adds no row; names stay unique.
C12_CreateChannel ==
    [][/\ \A c1 \in channels', c2 \in channels' : c1.name = c2.name => c1 = c2
       /\ \A c \in CookieInputs, n \in ChannelNameInputs :
            create_channel(c, n, "") =>
                LET me    == {u \in users : c # <<>> /\ u.username = c}
                    admin == \E u \in me : u.is_admin = 1
                    used  == \E ch \in channels : ch.name = n
                IN  /\ ~admin =>
                         resp'.status = 403 /\ channels' = channels
                    /\ (admin /\ used) =>
                         resp'.status # 500 /\ channels' = channels
                    /\ (admin /\ ~used) =>
                         \E ch \in channels' :
                            /\ channels' = channels \cup {ch}
                            /\ ch \notin channels
                            /\ ch.name = n
                            /\ \E u \in me : ch.owner_id = u.id]_vars

--------------------------------------------------------------------------
(* Handlers of the profile and the admin pages *)

\* POST /profile/{username}/edit
edit_profile(cookie, username, first_name, last_name, avatar) ==
    LET me   == cur_user(cookie)
        args == [username |-> username, first_name |-> first_name,
                 last_name |-> last_name, avatar |-> avatar]
    IN
    /\ Quiet
    /\ UNCHANGED <<channel_store, posts, comments, likes, chats, messages,
                   seq, now>>
    /\ IF me = {} \/ (me # {} /\ TheRow(me).username # username)
       THEN /\ resp' = Response("edit_profile", cookie, args, 303,
                                "/profile/{username}", NoOut)
            /\ UNCHANGED <<users, files>>
       ELSE LET avatar_path == IF avatar # <<>> THEN avatar_file(username)
                               ELSE TheRow(me).avatar
            IN  /\ files' = IF avatar # <<>>
                            THEN files \cup {avatar_file(username)} ELSE files
                /\ users' = {IF u.id = TheRow(me).id
                             THEN [u EXCEPT !.first_name = first_name,
                                            !.last_name = last_name,
                                            !.avatar = avatar_path]
                             ELSE u : u \in users}
                /\ resp' = Response("edit_profile", cookie, args, 303,
                                    "/profile/{username}",
                                    [set_cookie |-> TheRow(me).username])

\* POST /admin/users/{user_id}/verify
verify_user(cookie, user_id) ==
    LET me   == cur_user(cookie)
        args == [user_id |-> user_id]
    IN
    /\ Quiet
    /\ UNCHANGED <<channel_store, posts, comments, likes, chats, messages,
                   seq, files, now>>
    /\ IF me = {} \/ (me # {} /\ TheRow(me).is_admin = 0)
       THEN /\ resp' = Response("verify_user", cookie, args, 403,
                                "Permission denied", NoOut)
            /\ UNCHANGED users
       ELSE IF "is_verified" \in UsersColumns
       THEN /\ users' = {IF u.id = user_id
                         THEN [f \in DOMAIN u \cup {"is_verified"} |->
                                  IF f = "is_verified" THEN 1 ELSE u[f]]
                         ELSE u : u \in users}
            /\ resp' = Response("verify_user", cookie, args, 303,
                                "/admin/users", NoOut)
       ELSE /\ resp' = Response("verify_user", cookie, args, 500,
                                "OperationalError", NoOut)
            /\ UNCHANGED users

--------------------------------------------------------------------------
(* Every handler that asks for the current user, served one at a time *)

\* rows ever inserted into the tables other than users
RowsEver ==
    seq["posts"] + seq["comments"] + seq["likes"] + seq["chats"]
        + seq["messages"] + seq["channels"] + seq["channel_messages"]

\* a request of one of the handlers that call cur_user, with this cookie
Handler(c) ==
    \/ create_post(c, <<"h", "i">>, <<>>)
    \/ \E i \in UserIdInputs : add_comment(c, i, <<"h", "i">>)
    \/ \E i \in UserIdInputs : delete_post(c, i)
    \/ \E i \in UserIdInputs : toggle_like(c, i)
    \/ \E n \in FirstNameInputs, f \in FileInputs :
          edit_profile(c, ANN, n, RegLastName, f)
    \/ \E i \in UserIdInputs : verify_user(c, i)
    \/ create_channel(c, "news", "")
    \/ \E t \in TextInputs : send_channel_message(c, 1, t, <<>>)
    \/ start_chat(c, ANN)
    \/ chat_view(c, ANN)
    \/ \E t \in TextInputs : chat_send(c, ANN, t)
    \/ chat_gift(c, ANN, "Flowers")

\* the step stays within the bound on rows
Bounded == RowsEver' <= MaxGuestRows

NextGuest ==
    \/ \E u \in Names : register(EmailOf(u), u, <<>>)
    \/ \E u \in users : grant_admin(u.id)
    \/ \E c \in CookieInputs : create_post(c, <<"h", "i">>, <<>>) /\ Bounded
    \/ \E c \in CookieInputs, i \in UserIdInputs :
          add_comment(c, i, <<"h", "i">>) /\ Bounded
    \/ \E c \in CookieInputs, i \in UserIdInputs : delete_post(c, i)
    \/ \E c \in CookieInputs, i \in UserIdInputs : toggle_like(c, i) /\ Bounded
    \/ \E c \in CookieInputs, n \in FirstNameInputs, f \in FileInputs :
          edit_profile(c, ANN, n, RegLastName, f)
    \/ \E c \in CookieInputs, i \in UserIdInputs : verify_user(c, i)
    \/ \E c \in CookieInputs : create_channel(c, "news", "") /\ Bounded
    \/ \E c \in CookieInputs, t \in TextInputs :
          send_channel_message(c, 1, t, <<>>) /\ Bounded
    \/ \E c \in CookieInputs : start_chat(c, ANN) /\ Bounded
    \/ \E c \in CookieInputs : chat_view(c, ANN) /\ Bounded
    \/ \E c \in CookieInputs, t \in TextInputs : chat_send(c, ANN, t) /\ Bounded
    \/ \E c \in CookieInputs : chat_gift(c, ANN, "Flowers") /\ Bounded

SpecGuest == Init /\ [][NextGuest]_vars

\* the cookie is absent or names no users row
NoSuchUser(c) == c = <<>> \/ \A u \in users : u.username # c

\* C13: a request of any handler other than register and login whose cookie
\* is absent or names no existing user changes no table, whatever it answers.
C13_GuestChangesNothing ==
    [][\A c \in CookieInputs :
          (NoSuchUser(c) /\ Handler(c)) =>
              UNCHANGED <<users, posts, comments, likes, chats, messages,
                          channels, channel_messages>>]_vars

\* a request with a cookie naming nobody was answered while users and
\* posts hold rows
C13_Witness ==
    /\ resp.op \in {"create_post", "add_comment", "delete_post", "toggle_like",
                    "edit_profile", "verify_user", "create_channel",
                    "send_channel_message", "start_chat", "chat_view",
                    "chat_send", "chat_gift"}
    /\ NoSuchUser(resp.cookie)
    /\ users # {}
    /\ posts # {}

====
